---- MODULE Spec2Model ----
(***************************************************************************)
(* Model of notebooks/02_bert_embedded_descriptions.ipynb: the pipeline    *)
(* that selects one description per project (PID), normalizes it, asks the *)
(* BERT embedding provider for a vector, writes "PID,embedding" rows to a  *)
(* CSV file, and reads that file back to validate it.                      *)
(*                                                                         *)
(* Text is modelled as a sequence of one-character strings, so that        *)
(* split / strip / join / replace / quoting act on characters as the       *)
(* Python code does.  Floating-point numbers are modelled as integers      *)
(* counting tenths (-25 is -2.5), formatted and parsed digit by digit.     *)
(***************************************************************************)
EXTENDS Integers, Sequences, FiniteSets, TLC

VARIABLES
    pc,                \* the statement the run is at
    inputExists,       \* whether file_path resolves to a file
    table,             \* the rows of the input file
    data,              \* DataFrame read from the input file
    all_descriptions,  \* data without duplicated (PID, Description) pairs
    projects,          \* one row per PID
    csvfile,           \* the output file handle: "none", "open", "closed"
    file,              \* the lines of the output file (NoFile when absent)
    row,               \* position in projects of the row of the loop
    desc,              \* the list handed to the embedding provider
    emb,               \* the vector the provider returned for the row
    vecs,              \* the vectors written so far, in order
    calls,             \* number of calls of extract_embeddings
    err,               \* the exception that ended the run
    embedding          \* the DataFrame the validation cell builds

vars == <<pc, inputExists, table, data, all_descriptions, projects,
          csvfile, file, row, desc, emb, vecs, calls, err, embedding>>

\* ------------------------------------------------------------------ bounds
\* longest description explored by the Normalizer specification
MaxLen == 5
\* most rows of the input table
MaxRows == 3
\* most components of a vector returned by the embedding provider
MaxDim == 2

\* ------------------------------------------------------- values and inputs
\* a missing Description (pandas NaN, a float): the one value that is not a
\* sequence of single characters
Missing == <<"NaN">>

Chars == {"a", ".", " "}
Whitespace == {" ", "\t", "\n", "\r"}

RECURSIVE StringsUpTo(_)
StringsUpTo(n) ==
    IF n = 0 THEN {<<>>}
    ELSE LET S == StringsUpTo(n - 1)
         IN  S \cup {Append(s, c) : s \in {t \in S : Len(t) = n - 1}, c \in Chars}

\* ------------------------------------------------------------ str helpers
\* str.split(sep) for a one-character separator: always at least one fragment
RECURSIVE SplitFrom(_, _, _, _)
SplitFrom(s, sep, k, cur) ==
    IF k > Len(s) THEN <<cur>>
    ELSE IF s[k] = sep THEN <<cur>> \o SplitFrom(s, sep, k + 1, <<>>)
    ELSE SplitFrom(s, sep, k + 1, Append(cur, s[k]))

split(s, sep) == SplitFrom(s, sep, 1, <<>>)

\* str.strip(): remove leading and trailing whitespace
RECURSIVE lstrip(_)
lstrip(s) ==
    IF s # <<>> /\ Head(s) \in Whitespace THEN lstrip(Tail(s)) ELSE s

RECURSIVE rstrip(_)
rstrip(s) ==
    IF s # <<>> /\ s[Len(s)] \in Whitespace
    THEN rstrip(SubSeq(s, 1, Len(s) - 1)) ELSE s

strip(s) == rstrip(lstrip(s))

\* sep.join(parts)
RECURSIVE join(_, _)
join(sep, parts) ==
    IF parts = <<>> THEN <<>>
    ELSE IF Len(parts) = 1 THEN parts[1]
    ELSE parts[1] \o sep \o join(sep, Tail(parts))

\* str.replace(c, ''): drop every occurrence of the character c
RECURSIVE remove(_, _)
remove(s, c) ==
    IF s = <<>> THEN <<>>
    ELSE IF Head(s) = c THEN remove(Tail(s), c)
    ELSE <<Head(s)>> \o remove(Tail(s), c)

\* [f(x) for x in xs if keep(x)] for the comprehension of the Normalizer
RECURSIVE Fragments(_)
Fragments(xs) ==
    IF xs = <<>> THEN <<>>
    ELSE IF Head(xs) # <<>> THEN <<strip(Head(xs))>> \o Fragments(Tail(xs))
    ELSE Fragments(Tail(xs))

\* the comprehension without the final join (a list of sentences)
NormalizerNoJoin(d) ==
    IF d = Missing THEN << <<"_">> >>
    ELSE Fragments(split(d, "."))

\* Text Normalizer: the list handed to extract_embeddings
Normalizer(d) ==
    IF d = Missing THEN << <<"_">> >>
    ELSE LET desc1 == Fragments(split(d, "."))
         IN  << join(<<" ">>, desc1) >>

\* ------------------------------------------------------- DataFrame helpers
\* A DataFrame is a sequence of rows [idx, PID, Description]; idx is the
\* index label read_csv gives the row (a RangeIndex starting at 0).
PIDs == {3, 18}
\* descriptions found in the input table of the pipeline specification
Descriptions == {Missing, <<"a", ".", " ", "a", ".">>, <<".">>}

Rows == [PID : PIDs, Description : Descriptions]

RECURSIVE TablesUpTo(_)
TablesUpTo(n) ==
    IF n = 0 THEN {<<>>}
    ELSE LET S == TablesUpTo(n - 1)
         IN  S \cup {Append(t, r) : t \in {u \in S : Len(u) = n - 1}, r \in Rows}

\* pd.read_csv(file_path): attach the RangeIndex
read_table(t) ==
    [k \in 1..Len(t) |->
        [idx |-> k - 1, PID |-> t[k].PID, Description |-> t[k].Description]]

\* positions kept by drop_duplicates(keep='first') for the row keys ks
KeptFirst(ks) ==
    {k \in 1..Len(ks) : \A j \in 1..(k - 1) : ks[j] # ks[k]}

\* positions kept by keep='last'
KeptLast(ks) ==
    {k \in 1..Len(ks) : \A j \in (k + 1)..Len(ks) : ks[j] # ks[k]}

\* the rows of df at the positions of K, in df order
RECURSIVE Take(_, _, _)
Take(df, K, k) ==
    IF k > Len(df) THEN <<>>
    ELSE IF k \in K THEN <<df[k]>> \o Take(df, K, k + 1)
    ELSE Take(df, K, k + 1)

PairKeys(df) == [k \in 1..Len(df) |-> <<df[k].PID, df[k].Description>>]
PIDKeys(df) == [k \in 1..Len(df) |-> df[k].PID]

\* data[['PID', 'Description']].drop_duplicates()
drop_duplicates(df) == Take(df, KeptFirst(PairKeys(df)), 1)

\* a PID index that keeps the last row of each PID
pid_only_index_last(df) ==
    LET kept == Take(df, KeptLast(PIDKeys(df)), 1)
    IN  [k \in 1..Len(kept) |-> kept[k].idx]

\* a PID index that keeps every row
pid_only_index_all(df) == [k \in 1..Len(df) |-> df[k].idx]

\* all_descriptions['PID'].drop_duplicates().index
pid_only_index(df) ==
    LET kept == Take(df, KeptFirst(PIDKeys(df)), 1)
    IN  [k \in 1..Len(kept) |-> kept[k].idx]

\* df.loc[index]: for each label of index, the rows of df carrying it
RECURSIVE loc(_, _)
loc(df, index) ==
    IF index = <<>> THEN <<>>
    ELSE SelectSeq(df, LAMBDA r : r.idx = Head(index)) \o loc(df, Tail(index))

\* ------------------------------------------------------- numbers and text
Digits == <<"0", "1", "2", "3", "4", "5", "6", "7", "8", "9">>
DigitSet == {Digits[k] : k \in 1..10}
DigitVal(c) == (CHOOSE k \in 1..10 : Digits[k] = c) - 1

\* str(n) for a natural number
RECURSIVE IntToStr(_)
IntToStr(n) ==
    IF n < 10 THEN <<Digits[n + 1]>>
    ELSE IntToStr(n \div 10) \o <<Digits[(n % 10) + 1]>>

Abs(v) == IF v < 0 THEN 0 - v ELSE v

\* repr of a float that counts v tenths: sign, integer part, '.', one digit
float_repr(v) ==
    (IF v < 0 THEN <<"-">> ELSE <<>>)
        \o IntToStr(Abs(v) \div 10) \o <<".">> \o <<Digits[(Abs(v) % 10) + 1]>>

\* str(list(emb)): '[' + ', '.join(repr(x)) + ']'
str_list(vec) ==
    <<"[">> \o join(<<",", " ">>, [k \in 1..Len(vec) |-> float_repr(vec[k])])
            \o <<"]">>

\* the field written without the bracket surgery
format_emb_keep_brackets(vec) == str_list(vec)

\* str(list(emb)).replace('[','').replace(']','')
format_emb(vec) == remove(remove(str_list(vec), "["), "]")

\* ------------------------------------------------------------- csv.writer
\* QUOTE_MINIMAL: a field is quoted when it holds the delimiter, the quote
\* character or a line-terminator character; quotes inside are doubled.
RECURSIVE double_quotes(_)
double_quotes(s) ==
    IF s = <<>> THEN <<>>
    ELSE IF Head(s) = "\"" THEN <<"\"", "\"">> \o double_quotes(Tail(s))
    ELSE <<Head(s)>> \o double_quotes(Tail(s))

needs_quote(s) == \E k \in 1..Len(s) : s[k] \in {",", "\"", "\r", "\n"}

csv_field(s) ==
    IF needs_quote(s) THEN <<"\"">> \o double_quotes(s) \o <<"\"">> ELSE s

\* csv_writer.writerow(fields): one line of the file (without its "\r\n")
writerow(fields) ==
    join(<<",">>, [k \in 1..Len(fields) |-> csv_field(fields[k])])

Header == writerow(<< <<"P", "I", "D">>,
                      <<"e", "m", "b", "e", "d", "d", "i", "n", "g">> >>)

\* ------------------------------------------------------------- pd.read_csv
\* the fields of one line: commas inside a quoted field do not separate,
\* a doubled quote inside a quoted field is one quote character
RECURSIVE parse_from(_, _, _, _)
parse_from(line, k, cur, inq) ==
    IF k > Len(line) THEN <<cur>>
    ELSE IF inq THEN
        IF line[k] = "\"" THEN
            IF k < Len(line) /\ line[k + 1] = "\""
            THEN parse_from(line, k + 2, Append(cur, "\""), TRUE)
            ELSE parse_from(line, k + 1, cur, FALSE)
        ELSE parse_from(line, k + 1, Append(cur, line[k]), TRUE)
    ELSE IF line[k] = "\"" THEN parse_from(line, k + 1, cur, TRUE)
    ELSE IF line[k] = "," THEN <<cur>> \o parse_from(line, k + 1, <<>>, FALSE)
    ELSE parse_from(line, k + 1, Append(cur, line[k]), FALSE)

parse_line(line) == parse_from(line, 1, <<>>, FALSE)

\* the natural number written by a string of digits
RECURSIVE StrToNat(_, _)
StrToNat(s, acc) ==
    IF s = <<>> THEN acc
    ELSE StrToNat(Tail(s), acc * 10 + DigitVal(Head(s)))

IsDigits(s) == \A k \in 1..Len(s) : s[k] \in DigitSet

\* float(x): surrounding whitespace is ignored; an optional sign, digits,
\* and optionally '.' with at most one digit (the tenths this model counts).
\* ok is FALSE where float() raises ValueError; v is the value in tenths.
to_float(x) ==
    LET t    == strip(x)
        neg  == t # <<>> /\ Head(t) = "-"
        body == IF t # <<>> /\ Head(t) \in {"-", "+"} THEN Tail(t) ELSE t
        ps   == split(body, ".")
        ip   == ps[1]
        fp   == IF Len(ps) = 2 THEN ps[2] ELSE <<>>
        mag  == StrToNat(ip, 0) * 10 + StrToNat(fp, 0)
    IN  IF Len(ps) > 2 \/ Len(fp) > 1 \/ ~IsDigits(ip) \/ ~IsDigits(fp)
           \/ (ip = <<>> /\ fp = <<>>)
        THEN [ok |-> FALSE, v |-> 0]
        ELSE [ok |-> TRUE, v |-> IF neg THEN 0 - mag ELSE mag]

\* read_csv column inference: a column whose every field is a number (or
\* empty) becomes a float column; otherwise its fields stay strings.
is_float_column(fields) ==
    \A k \in 1..Len(fields) : fields[k] = <<>> \/ to_float(fields[k]).ok

\* convert(s): s.embedding.split(',') then float() of each token;
\* cell is the value of the embedding column, isStr whether it is a str
\* (a float has no split).  error is "" when convert returns.
convert(cell, isStr) ==
    IF ~isStr THEN [error |-> "AttributeError", value |-> <<>>]
    ELSE LET toks == split(cell, ",")
             vals == [k \in 1..Len(toks) |-> to_float(toks[k])]
         IN  IF \E k \in 1..Len(vals) : ~vals[k].ok
             THEN [error |-> "ValueError", value |-> <<>>]
             ELSE [error |-> "", value |-> [k \in 1..Len(vals) |-> vals[k].v]]

\* Cell 18 on the lines of a file with at least one data row: the records
\* read back, or the exception of the first row that raises.  Rows whose
\* field count differs from the header's are a parser error (the Writer
\* always writes two fields).
reader(lines) ==
    LET body == Tail(lines)
        recs == [k \in 1..Len(body) |-> parse_line(body[k])]
    IN  IF \E k \in 1..Len(recs) : Len(recs[k]) # 2
        THEN [error |-> "ParserError", value |-> <<>>]
        ELSE
        LET col   == [k \in 1..Len(recs) |-> recs[k][2]]
            isStr == ~is_float_column(col)
            conv  == [k \in 1..Len(recs) |-> convert(col[k], isStr /\ col[k] # <<>>)]
            bad   == {k \in 1..Len(recs) : conv[k].error # ""}
        IN  IF bad # {}
            THEN [error |-> conv[CHOOSE k \in bad : \A j \in bad : k <= j].error,
                  value |-> <<>>]
            ELSE [error |-> "",
                  value |-> [k \in 1..Len(recs) |->
                                [PID |-> StrToNat(recs[k][1], 0),
                                 embedding |-> conv[k].value]]]

\* ------------------------------------------------------------------ state
\* component values the embedding provider returns, in tenths: -2.5 and 0.1
Vals == {-25, 1}

RECURSIVE VectorsOfDim(_)
VectorsOfDim(n) ==
    IF n = 0 THEN {<<>>}
    ELSE {Append(v, x) : v \in VectorsOfDim(n - 1), x \in Vals}

\* what extract_embeddings(...)[0] can be: a vector of 1..MaxDim components
Vectors == UNION {VectorsOfDim(n) : n \in 1..MaxDim}

NoFile == [exists |-> FALSE, lines |-> <<>>]
\* an output file left by an earlier run
OldFile == [exists |-> TRUE, lines |-> <<Header, <<"9", ",", "0", ".", "5">> >>]

Init ==
    /\ pc = "cell8"
    /\ inputExists \in BOOLEAN
    /\ table \in (IF inputExists THEN TablesUpTo(MaxRows) ELSE {<<>>})
    /\ data = <<>>
    /\ all_descriptions = <<>>
    /\ projects = <<>>
    /\ csvfile = "none"
    /\ file \in {NoFile, OldFile}
    /\ row = 0
    /\ desc = <<>>
    /\ emb = <<>>
    /\ vecs = <<>>
    /\ calls = 0
    /\ err = ""
    /\ embedding = <<>>

\* ---------------------------------------------------------------- actions
\* cell 8: os.path.isfile(file_path) only chooses the message printed
CheckInputPath ==
    /\ pc = "cell8"
    /\ pc' = "cell11"
    /\ UNCHANGED <<inputExists, table, data, all_descriptions, projects,
                   csvfile, file, row, desc, emb, vecs, calls, err, embedding>>

\* read_csv on an absent file that returns an empty frame instead of raising
ReadInputLenient ==
    /\ pc = "cell11"
    /\ data' = read_table(table)
    /\ all_descriptions' = drop_duplicates(data')
    /\ pc' = "cell12"
    /\ UNCHANGED <<inputExists, table, projects, csvfile, file, row, desc,
                   emb, vecs, calls, err, embedding>>

\* cell 11 when the input file is absent: pd.read_csv raises
ReadInputRaise ==
    /\ pc = "cell11"
    /\ ~inputExists
    /\ err' = "FileNotFoundError"
    /\ pc' = "error"
    /\ UNCHANGED <<inputExists, table, data, all_descriptions, projects,
                   csvfile, file, row, desc, emb, vecs, calls, embedding>>

\* cell 11: data = pd.read_csv(file_path); all_descriptions = ...drop_duplicates()
ReadInput ==
    /\ pc = "cell11"
    /\ inputExists
    /\ data' = read_table(table)
    /\ all_descriptions' = drop_duplicates(data')
    /\ pc' = "cell12"
    /\ UNCHANGED <<inputExists, table, projects, csvfile, file, row, desc,
                   emb, vecs, calls, err, embedding>>

\* cell 12: the Description Selector
SelectProjects ==
    /\ pc = "cell12"
    /\ projects' = loc(all_descriptions, pid_only_index(all_descriptions))
    /\ pc' = "cell14"
    /\ UNCHANGED <<inputExists, table, data, all_descriptions, csvfile, file,
                   row, desc, emb, vecs, calls, err, embedding>>

\* cell 14, lines 1-3: open(output_file, 'w') truncates, then the header row
OpenOutput ==
    /\ pc = "cell14"
    /\ csvfile' = "open"
    /\ file' = [exists |-> TRUE, lines |-> <<Header>>]
    /\ row' = 1
    /\ pc' = "loop"
    /\ UNCHANGED <<inputExists, table, data, all_descriptions, projects,
                   desc, emb, vecs, calls, err, embedding>>

\* cell 14: open() raises because the target path is not writable
OpenOutputRaise ==
    /\ pc = "cell14"
    /\ err' = "OSError(open)"
    /\ pc' = "error"
    /\ UNCHANGED <<inputExists, table, data, all_descriptions, projects,
                   csvfile, file, row, desc, emb, vecs, calls, embedding>>

\* the for loop is exhausted: the with block exits and closes the handle
LoopEnd ==
    /\ pc = "loop"
    /\ row > Len(projects)
    /\ csvfile' = "closed"
    /\ pc' = "cell17"
    /\ UNCHANGED <<inputExists, table, data, all_descriptions, projects,
                   file, row, desc, emb, vecs, calls, err, embedding>>

\* loop body, the Text Normalizer
NormalizeRow ==
    /\ pc = "loop"
    /\ row <= Len(projects)
    /\ desc' = Normalizer(projects[row].Description)
    /\ pc' = "embed"
    /\ UNCHANGED <<inputExists, table, data, all_descriptions, projects,
                   csvfile, file, row, emb, vecs, calls, err, embedding>>

\* loop body: extract_embeddings returns a vector
Embed ==
    /\ pc = "embed"
    /\ calls' = calls + 1
    /\ \E v \in Vectors : emb' = v
    /\ pc' = "write"
    /\ UNCHANGED <<inputExists, table, data, all_descriptions, projects,
                   csvfile, file, row, desc, vecs, err, embedding>>

\* a loop that catches the provider's exception and goes on to the next row
EmbedRaiseSkip ==
    /\ pc = "embed"
    /\ calls' = calls + 1
    /\ err' = "ProviderError"
    /\ row' = row + 1
    /\ pc' = "loop"
    /\ UNCHANGED <<inputExists, table, data, all_descriptions, projects,
                   csvfile, file, desc, emb, vecs, embedding>>

\* loop body: extract_embeddings raises; nothing catches it, the with block
\* closes the handle on the way out
EmbedRaise ==
    /\ pc = "embed"
    /\ calls' = calls + 1
    /\ err' = "ProviderError"
    /\ csvfile' = "closed"
    /\ pc' = "error"
    /\ UNCHANGED <<inputExists, table, data, all_descriptions, projects,
                   file, row, desc, emb, vecs, embedding>>

\* loop body: format the vector and write the row
WriteRow ==
    /\ pc = "write"
    /\ file' = [file EXCEPT !.lines =
                   Append(@, writerow(<<IntToStr(projects[row].PID), format_emb(emb)>>))]
    /\ vecs' = Append(vecs, emb)
    /\ row' = row + 1
    /\ pc' = "loop"
    /\ UNCHANGED <<inputExists, table, data, all_descriptions, projects,
                   csvfile, desc, emb, calls, err, embedding>>

\* a write error with a handle opened outside a with block: it stays open
WriteRowRaiseLeak ==
    /\ pc = "write"
    /\ err' = "OSError(write)"
    /\ pc' = "error"
    /\ UNCHANGED <<inputExists, table, data, all_descriptions, projects,
                   csvfile, file, row, desc, emb, vecs, calls, embedding>>

\* loop body: csv_writer.writerow raises (I/O error); the with block closes
WriteRowRaise ==
    /\ pc = "write"
    /\ err' = "OSError(write)"
    /\ csvfile' = "closed"
    /\ pc' = "error"
    /\ UNCHANGED <<inputExists, table, data, all_descriptions, projects,
                   file, row, desc, emb, vecs, calls, embedding>>

\* cell 17: os.path.isfile(output_file) only chooses the message printed
CheckOutputPath ==
    /\ pc = "cell17"
    /\ pc' = "cell18"
    /\ UNCHANGED <<inputExists, table, data, all_descriptions, projects,
                   csvfile, file, row, desc, emb, vecs, calls, err, embedding>>

\* cell 18 on a file with data rows: the Embedding Reader returns
ReadBack ==
    /\ pc = "cell18"
    /\ Len(file.lines) > 1
    /\ reader(file.lines).error = ""
    /\ embedding' = reader(file.lines).value
    /\ pc' = "done"
    /\ UNCHANGED <<inputExists, table, data, all_descriptions, projects,
                   csvfile, file, row, desc, emb, vecs, calls, err>>

\* cell 18 on a file with data rows: convert raises
ReadBackRaise ==
    /\ pc = "cell18"
    /\ Len(file.lines) > 1
    /\ reader(file.lines).error # ""
    /\ err' = reader(file.lines).error
    /\ pc' = "error"
    /\ UNCHANGED <<inputExists, table, data, all_descriptions, projects,
                   csvfile, file, row, desc, emb, vecs, calls, embedding>>

\* cell 18 on a header-only file: apply on the empty frame gives a frame,
\* and assigning it to one column either yields the empty frame or raises,
\* depending on the pandas release
ReadBackEmpty ==
    /\ pc = "cell18"
    /\ Len(file.lines) = 1
    /\ \/ /\ embedding' = <<>>
          /\ pc' = "done"
          /\ err' = err
       \/ /\ err' = "ValueError"
          /\ pc' = "error"
          /\ embedding' = embedding
    /\ UNCHANGED <<inputExists, table, data, all_descriptions, projects,
                   csvfile, file, row, desc, emb, vecs, calls>>

Next ==
    \/ CheckInputPath
    \/ ReadInputRaise
    \/ ReadInput
    \/ SelectProjects
    \/ OpenOutput
    \/ OpenOutputRaise
    \/ LoopEnd
    \/ NormalizeRow
    \/ Embed
    \/ EmbedRaise
    \/ WriteRow
    \/ WriteRowRaise
    \/ CheckOutputPath
    \/ ReadBack
    \/ ReadBackRaise
    \/ ReadBackEmpty

Spec == Init /\ [][Next]_vars

\* ------------------------------------------- the Normalizer on its own
\* The loop at its first row, for a table of one row whose description is
\* any string of at most MaxLen characters, or missing.
InitNorm ==
    /\ pc = "loop"
    /\ inputExists = TRUE
    /\ \E d \in StringsUpTo(MaxLen) \cup {Missing} :
           table = <<[PID |-> 3, Description |-> d]>>
    /\ data = read_table(table)
    /\ all_descriptions = data
    /\ projects = data
    /\ csvfile = "open"
    /\ file = [exists |-> TRUE, lines |-> <<Header>>]
    /\ row = 1
    /\ desc = <<>>
    /\ emb = <<>>
    /\ vecs = <<>>
    /\ calls = 0
    /\ err = ""
    /\ embedding = <<>>

NextNorm == NormalizeRow

SpecNorm == InitNorm /\ [][NextNorm]_vars

\* ================================================================= claims
\* the description of the single row of the Normalizer specification
TheDescription == table[1].Description

\* the Selector has produced projects
SelectorRan == pc \notin {"cell8", "cell11", "cell12"} /\ err # "FileNotFoundError"

TablePIDs == {table[k].PID : k \in 1..Len(table)}

\* C1: after the Selector has run, projects holds exactly one entry for every
\* distinct PID of the input table and no other PID; an empty table gives an
\* empty selection.
C1_OneEntryPerPID ==
    SelectorRan =>
        /\ \A p \in TablePIDs :
               Cardinality({k \in 1..Len(projects) : projects[k].PID = p}) = 1
        /\ {projects[k].PID : k \in 1..Len(projects)} = TablePIDs
        /\ (table = <<>> => projects = <<>>)

\* a table of three rows in which a PID is repeated with another description
C1_Witness ==
    /\ pc = "cell14"
    /\ Len(table) = 3
    /\ table[1].PID = table[3].PID
    /\ table[1].Description # table[3].Description
    /\ Len(projects) = 2

\* the (PID, Description) pairs of the first row of each PID, in table order
RECURSIVE FirstSeen(_, _)
FirstSeen(t, seen) ==
    IF t = <<>> THEN <<>>
    ELSE IF Head(t).PID \in seen THEN FirstSeen(Tail(t), seen)
    ELSE << <<Head(t).PID, Head(t).Description>> >>
             \o FirstSeen(Tail(t), seen \cup {Head(t).PID})

\* C2: the Selector lists the PIDs in the order of their first appearance in
\* the input, each with the description of its first input row.
C2_FirstAppearance ==
    SelectorRan =>
        [k \in 1..Len(projects) |-> <<projects[k].PID, projects[k].Description>>]
            = FirstSeen(table, {})

\* a PID seen first with a text, later with a missing description, and
\* another PID in between
C2_Witness ==
    /\ pc = "cell14"
    /\ Len(table) = 3
    /\ table[1].PID = table[3].PID
    /\ table[2].PID # table[1].PID
    /\ table[1].Description # Missing
    /\ table[3].Description = Missing
    /\ projects[1].Description = table[1].Description

\* C3: for every description, missing or any string, the Normalizer gives a
\* list of exactly one text unit, and that unit is "_" when the description
\* is missing.
C3_ExactlyOneUnit ==
    pc = "embed" =>
        /\ Len(desc) = 1
        /\ (TheDescription = Missing => desc = << <<"_">> >>)

\* a description made of two sentences has been normalized into one unit
C3_Witness ==
    /\ pc = "embed"
    /\ TheDescription = <<"a", ".", "a", "a", ".">>
    /\ desc = << <<"a", " ", "a", "a">> >>

\* the reference result: trim every fragment, drop the empty ones, join
RECURSIVE TrimmedNonEmpty(_)
TrimmedNonEmpty(xs) ==
    IF xs = <<>> THEN <<>>
    ELSE IF strip(Head(xs)) # <<>>
         THEN <<strip(Head(xs))>> \o TrimmedNonEmpty(Tail(xs))
         ELSE TrimmedNonEmpty(Tail(xs))

Reference(d) == join(<<" ">>, TrimmedNonEmpty(split(d, ".")))

\* C4: for every non-missing description the Normalizer's unit equals the
\* reference result, in which fragments that are empty after trimming
\* contribute nothing.
C4_EqualsReference ==
    (pc = "embed" /\ TheDescription # Missing) =>
        desc = <<Reference(TheDescription)>>

\* C7: every text unit handed to the embedding provider has length >= 1.
C7_UnitNonEmpty ==
    pc = "embed" => \A k \in 1..Len(desc) : Len(desc[k]) >= 1

\* the Writer has written every record and left the loop
WriterDone == pc \in {"cell17", "cell18", "done"}

Reprs(vec) == [k \in 1..Len(vec) |-> float_repr(vec[k])]

HeaderLine == <<"P", "I", "D", ",", "e", "m", "b", "e", "d", "d", "i", "n", "g">>

NoChar(line, c) == \A k \in 1..Len(line) : line[k] # c

\* C5 as stated: header, then per record the PID, a comma and the components
\* separated by commas, without bracket and without quote characters.
C5_Original ==
    WriterDone =>
        /\ file.lines = <<HeaderLine>> \o
               [k \in 1..Len(vecs) |->
                   IntToStr(projects[k].PID) \o <<",">> \o join(<<",">>, Reprs(vecs[k]))]
        /\ \A k \in 1..Len(file.lines) :
               /\ NoChar(file.lines[k], "[") /\ NoChar(file.lines[k], "]")
               /\ NoChar(file.lines[k], "\"")

\* the line of a record: the components are joined by a comma and a space,
\* and the field is enclosed in double quotes when it holds a comma
QuotedLine(pid, vec) ==
    IntToStr(pid) \o <<",">> \o
        (IF Len(vec) >= 2
         THEN <<"\"">> \o join(<<",", " ">>, Reprs(vec)) \o <<"\"">>
         ELSE join(<<",", " ">>, Reprs(vec)))

\* C5 amended: header, then one line per record in input order made of the
\* PID, a comma and the components joined by ", ", the field enclosed in
\* double quotes when the vector has two or more components; no bracket
\* characters; only the header for the empty sequence.
C5_Amended ==
    WriterDone =>
        /\ file.lines = <<HeaderLine>> \o
               [k \in 1..Len(vecs) |-> QuotedLine(projects[k].PID, vecs[k])]
        /\ Len(vecs) = Len(projects)
        /\ \A k \in 1..Len(file.lines) :
               NoChar(file.lines[k], "[") /\ NoChar(file.lines[k], "]")

\* two records written, the first with two components, the second with one
C5_Witness ==
    /\ pc = "cell17"
    /\ Len(vecs) = 2
    /\ Len(vecs[1]) = 2
    /\ Len(vecs[2]) = 1

\* the validation cell has run
ReaderRan ==
    \/ pc = "done"
    \/ pc = "error" /\ err \in {"AttributeError", "ValueError", "ParserError"}

\* C6: reading the written file back yields as many records as were written,
\* with the same PIDs in the same order and the same vectors.
C6_RoundTrip ==
    ReaderRan =>
        /\ err = ""
        /\ embedding = [k \in 1..Len(vecs) |->
                           [PID |-> projects[k].PID, embedding |-> vecs[k]]]

\* C8: in a run that starts with the input file absent the Selector never
\* runs, the provider is never called and the output file is never opened,
\* truncated or written.
C8_AbortBeforeProcessing ==
    [][~inputExists =>
          /\ pc' \in {"cell8", "cell11", "error"}
          /\ projects' = projects
          /\ all_descriptions' = all_descriptions
          /\ calls' = 0
          /\ csvfile' = "none"
          /\ file' = file]_vars

\* the run has ended on the missing input file, an older output file intact
C8_Witness ==
    /\ ~inputExists
    /\ pc = "error"
    /\ err = "FileNotFoundError"
    /\ file = OldFile

\* C9: a step in which the provider raises on the k-th record ends the run in
\* the error state with the header and the rows of the first k-1 records in
\* the file, and no step follows it (no retry, no later call, no later row).
C9_ProviderFailureEndsRun ==
    [][(err = "ProviderError" \/ err' = "ProviderError") =>
          /\ err = ""
          /\ pc' = "error"
          /\ calls' = row
          /\ row' = row
          /\ file' = file
          /\ file.lines = <<HeaderLine>> \o
                 [k \in 1..(row - 1) |-> QuotedLine(projects[k].PID, vecs[k])]]_vars

\* the provider raised on the second record, after one row was written
C9_Witness ==
    /\ pc = "error"
    /\ err = "ProviderError"
    /\ row = 2
    /\ calls = 2
    /\ Len(file.lines) = 2

LoopPcs == {"loop", "embed", "write"}

\* C10: the handle is open exactly while the run is in the write loop, hence
\* closed in every terminal state that follows the loop, and the file
\* changes only while the handle is open.
C10_HandleScoped ==
    /\ [](csvfile = "open" <=> pc \in LoopPcs)
    /\ []((pc \in {"done", "error"} /\ err \notin {"FileNotFoundError", "OSError(open)"})
             => csvfile = "closed")
    /\ [][file' # file => csvfile' = "open"]_vars

\* a row write raised after a row had been written, and the handle is closed
C10_Witness ==
    /\ pc = "error"
    /\ err = "OSError(write)"
    /\ csvfile = "closed"
    /\ Len(file.lines) = 2

====
